---- MODULE Spec2Model ----
(***************************************************************************)
(* Process-algebra text -> Petri net (models/parser.py), the selector's    *)
(* main-process filter (ui/petri_net_selector.py) and the reachability     *)
(* builder (models/Petri_Net_methods.py).                                  *)
(*                                                                         *)
(* A Python str is a sequence of one-character strings; a dict is an       *)
(* insertion-ordered sequence of <<key, value>> pairs; a list of dicts is  *)
(* a sequence of records.                                                  *)
(***************************************************************************)
EXTENDS Integers, Sequences, FiniteSets, TLC

(***************************************************************************)
(* Python string primitives                                                *)
(***************************************************************************)

\* str.strip() removes these from both ends
Whitespace == {" ", "\n"}

\* characters matched by the regular expression class \w
WordChars == {"a", "b", "c", "d", "s", "t", "o", "p", "P", "Q", "S", "T", "O"}

\* str.upper(), one character
UpperChar(c) ==
  CASE c = "s" -> "S"
    [] c = "t" -> "T"
    [] c = "o" -> "O"
    [] c = "p" -> "P"
    [] c = "a" -> "A"
    [] c = "b" -> "B"
    [] c = "c" -> "C"
    [] c = "d" -> "D"
    [] OTHER -> c

Upper(s) == [i \in 1..Len(s) |-> UpperChar(s[i])]

STOP == <<"S", "T", "O", "P">>

\* s[i:] for a 1-based i
Drop(s, i) == SubSeq(s, i, Len(s))

\* c in s
Contains(s, c) == \E i \in 1..Len(s) : s[i] = c

\* s.find(c), 1-based; 0 when c does not occur (Python's -1)
Find(s, c) ==
  IF Contains(s, c) THEN CHOOSE i \in 1..Len(s) : s[i] = c /\ \A j \in 1..(i-1) : s[j] # c
  ELSE 0

\* s.strip()
Strip(s) ==
  LET keep == {i \in 1..Len(s) : s[i] \notin Whitespace} IN
  IF keep = {} THEN <<>>
  ELSE LET lo == CHOOSE i \in keep : \A j \in keep : i <= j
           hi == CHOOSE i \in keep : \A j \in keep : j <= i
       IN SubSeq(s, lo, hi)

\* s.split(c): every occurrence of c separates two (possibly empty) parts
RECURSIVE Split(_, _)
Split(s, c) ==
  IF ~Contains(s, c) THEN <<s>>
  ELSE LET i == Find(s, c) IN <<SubSeq(s, 1, i-1)>> \o Split(Drop(s, i+1), c)

\* running parenthesis counter after the first n characters of s
RECURSIVE ParenCount(_, _)
ParenCount(s, n) ==
  IF n = 0 THEN 0
  ELSE ParenCount(s, n-1) + (IF s[n] = "(" THEN 1 ELSE IF s[n] = ")" THEN -1 ELSE 0)

(***************************************************************************)
(* Python dict, insertion ordered                                          *)
(***************************************************************************)

DictHas(d, k) == \E i \in 1..Len(d) : d[i][1] = k

DictGet(d, k) == d[CHOOSE i \in 1..Len(d) : d[i][1] = k][2]

\* d[k] = v : a new key is appended, an existing key keeps its position
DictSet(d, k, v) ==
  IF DictHas(d, k) THEN [i \in 1..Len(d) |-> IF d[i][1] = k THEN <<k, v>> ELSE d[i]]
  ELSE Append(d, <<k, v>>)

DictKeys(d) == {d[i][1] : i \in 1..Len(d)}

(***************************************************************************)
(* ProcessAlgebraParser: string helpers                                    *)
(***************************************************************************)

\* _is_in_parentheses(expr, pos) with a 0-based pos
_is_in_parentheses(expr, pos) ==
  IF pos < 0 \/ pos >= Len(expr) THEN FALSE
  ELSE ParenCount(expr, pos) > 0

\* _remove_outer_parentheses(expr)
_remove_outer_parentheses(expr0) ==
  LET expr == Strip(expr0) IN
  IF Len(expr) >= 1 /\ expr[1] = "(" /\ expr[Len(expr)] = ")" THEN
    LET closes == {i \in 1..Len(expr) : expr[i] = ")" /\ ParenCount(expr, i) = 0} IN
    IF closes = {} THEN expr
    ELSE LET i == CHOOSE k \in closes : \A j \in closes : k <= j IN
         IF i = Len(expr) THEN Strip(SubSeq(expr, 2, Len(expr) - 1)) ELSE expr
  ELSE expr

\* positions where the loops of the two split functions cut: the character is
\* the operator, it is no parenthesis, and paren_level is 0 there
SplitPoints(expr, operator) ==
  {i \in 1..Len(expr) : expr[i] = operator /\ expr[i] \notin {"(", ")"}
                        /\ ParenCount(expr, i) = 0}

RECURSIVE SplitAt(_, _, _)
\* the parts appended by the loop of _split_by_operator from `start` on
SplitAt(expr, points, start) ==
  LET rest == {i \in points : i >= start} IN
  IF rest = {} THEN (IF start <= Len(expr) THEN <<Drop(expr, start)>> ELSE <<>>)
  ELSE LET i == CHOOSE k \in rest : \A j \in rest : k <= j IN
       <<SubSeq(expr, start, i-1)>> \o SplitAt(expr, points, i+1)

\* _split_by_operator(expr, operator)
_split_by_operator(expr, operator) == SplitAt(expr, SplitPoints(expr, operator), 1)

\* _split_by_first_operator(expr, operator)
_split_by_first_operator(expr, operator) ==
  LET points == SplitPoints(expr, operator) IN
  IF points = {} THEN <<expr>>
  ELSE LET i == CHOOSE k \in points : \A j \in points : k <= j IN
       <<SubSeq(expr, 1, i-1), Drop(expr, i+1)>>

(***************************************************************************)
(* ProcessAlgebraParser: the instance                                      *)
(*                                                                         *)
(* `self` is a record of the instance's fields; `raised` names the class   *)
(* of the exception that travels up to the except clause of parse(), and   *)
(* is "none" while there is none.                                          *)
(*                                                                         *)
(* TLC hands an operator its arguments unevaluated.  An operator that      *)
(* threads the instance through a recursion therefore binds its arguments  *)
(* to their values first: CHOOSE r \in {Body(a) : a \in {argument}} : TRUE *)
(* is Body(argument), with the argument evaluated once.                    *)
(***************************************************************************)

\* frames _parse_expression may stack before the interpreter raises
\* RecursionError; every properly shrinking recursion of the texts modelled
\* here stays far below it
RecursionLimit == 8

\* __init__
NewParser ==
  [places |-> <<>>, transitions |-> <<>>, arcs |-> <<>>, current_id |-> 0,
   process_definitions |-> <<>>, process_places |-> <<>>,
   pending_connections |-> <<>>]

\* a reset that leaves the places of the last parse in the list
reset_keeps_places(self) ==
  [self EXCEPT !.transitions = <<>>, !.arcs = <<>>,
               !.current_id = 0, !.process_definitions = <<>>,
               !.process_places = <<>>, !.pending_connections = <<>>]

\* a reset that leaves the id counter where the last parse left it
reset_keeps_current_id(self) ==
  [self EXCEPT !.places = <<>>, !.transitions = <<>>, !.arcs = <<>>,
               !.process_definitions = <<>>,
               !.process_places = <<>>, !.pending_connections = <<>>]

\* reset(), as the code resets
reset(self) ==
  [self EXCEPT !.places = <<>>, !.transitions = <<>>, !.arcs = <<>>,
               !.current_id = 0, !.process_definitions = <<>>,
               !.process_places = <<>>, !.pending_connections = <<>>]

\* a get_id that returns the counter without advancing it
get_id_stuck(self) == self

\* get_id(): the instance after the call; the value returned is the
\* current_id before the call
get_id(self) == [self EXCEPT !.current_id = @ + 1]

\* _get_place_by_id(place_id)
_get_place_by_id(self, place_id) ==
  LET hits == {i \in 1..Len(self.places) : self.places[i].id = place_id} IN
  IF hits = {} THEN [x |-> 100, y |-> 100]
  ELSE self.places[CHOOSE i \in hits : \A j \in hits : i <= j]

\* add_arc with the two ends written in the wrong order
AddArc_reversed(self, source_id, target_id, p2t) ==
  [self EXCEPT !.arcs = Append(@, [source_id |-> target_id, target_id |-> source_id,
                                    is_place_to_transition |-> p2t])]

\* an add_arc that leaves out the arcs from a place to a transition
AddArc_outputs_only(self, source_id, target_id, p2t) ==
  IF p2t THEN self
  ELSE [self EXCEPT !.arcs = Append(@, [source_id |-> source_id, target_id |-> target_id,
                                         is_place_to_transition |-> p2t])]

AddPlace(self, place) == [self EXCEPT !.places = Append(@, place)]
AddTransition(self, t) == [self EXCEPT !.transitions = Append(@, t)]
AddArc(self, source_id, target_id, p2t) ==
  [self EXCEPT !.arcs = Append(@, [source_id |-> source_id, target_id |-> target_id,
                                    is_place_to_transition |-> p2t])]

\* parser.py 151-233: the branch of _parse_expression taken for `first.rest`
\* up to, and excluding, the recursive call on the rest
SequenceHead(self0, parts0, source_place_id0, process_name, base_y) ==
  LET Body(self, parts, source_place_id) ==
        LET first_part == _remove_outer_parentheses(Strip(parts[1]))
            transition_id == self.current_id
            sx == _get_place_by_id(self, source_place_id).x
            s1 == AddArc(AddTransition(get_id(self),
                           [id |-> transition_id, name |-> first_part, x |-> sx + 100,
                            y |-> base_y, process |-> process_name]),
                         source_place_id, transition_id, TRUE)
            next_part_clean == _remove_outer_parentheses(Strip(parts[2]))
            new_id == self.current_id + 1
        IN
        IF Upper(next_part_clean) = STOP THEN
          AddArc(AddPlace(get_id(s1),
                   [id |-> new_id, name |-> STOP, tokens |-> 0, x |-> sx + 200,
                    y |-> base_y, is_terminal |-> TRUE, process |-> process_name]),
                 transition_id, new_id, FALSE)
        ELSE IF DictHas(self.process_places, next_part_clean) THEN
          AddArc(s1, transition_id, DictGet(self.process_places, next_part_clean), FALSE)
        ELSE
          AddArc(AddPlace(get_id(s1),
                   [id |-> new_id, name |-> <<>>, tokens |-> 0, x |-> sx + 200,
                    y |-> base_y, process |-> process_name]),
                 transition_id, new_id, FALSE)
  IN CHOOSE r \in {Body(a, b, c) : a \in {self0}, b \in {parts0}, c \in {source_place_id0}} : TRUE

\* the recursion on the rest placed after the if/elif/else instead of inside
\* its else branch: it is made after STOP and after a process reference too
SequenceContinues_always(self, parts) == TRUE

\* whether SequenceHead goes on to recurse on parts[2]
SequenceContinues(self, parts) ==
  LET next_part_clean == _remove_outer_parentheses(Strip(parts[2])) IN
  Upper(next_part_clean) # STOP /\ ~DictHas(self.process_places, next_part_clean)

\* parser.py 235-345: atomic action, bare STOP or bare process reference
Atomic(self0, expr0, source_place_id0, process_name, base_y) ==
  LET Body(self, expr, source_place_id) ==
        LET sx == _get_place_by_id(self, source_place_id).x
            id1 == self.current_id
            id2 == self.current_id + 1
            s2 == get_id(get_id(self))
        IN
        IF Upper(expr) = STOP THEN
          AddArc(AddArc(AddTransition(AddPlace(s2,
                     [id |-> id1, name |-> STOP, tokens |-> 0, x |-> sx + 100,
                      y |-> base_y, is_terminal |-> TRUE, pcess |-> process_name]),
                     [id |-> id2, name |-> <<"τ">>, x |-> sx + 50, y |-> base_y,
                      is_silent |-> TRUE]),
                   source_place_id, id2, TRUE),
                 id2, id1, FALSE)
        ELSE IF DictHas(self.process_places, expr) THEN
          AddArc(AddArc(AddTransition(get_id(self),
                     [id |-> id1, name |-> <<"→">> \o expr, x |-> sx + 50, y |-> base_y,
                      is_recursion |-> TRUE]),
                   source_place_id, id1, TRUE),
                 id1, DictGet(self.process_places, expr), FALSE)
        ELSE
          AddArc(AddPlace(AddArc(AddTransition(s2,
                     [id |-> id1, name |-> expr, x |-> sx + 100, y |-> base_y,
                      process |-> process_name]),
                   source_place_id, id1, TRUE),
                   [id |-> id2, name |-> (IF Upper(expr) = STOP THEN STOP ELSE <<>>),
                    tokens |-> 0, x |-> sx + 200, y |-> base_y, process |-> process_name]),
                 id1, id2, FALSE)
  IN IF Strip(expr0) = <<>> THEN self0
     ELSE CHOOSE r \in {Body(a, b, c) : a \in {self0},
                        b \in {_remove_outer_parentheses(Strip(expr0))},
                        c \in {source_place_id0}} : TRUE

RECURSIVE _parse_expression(_, _, _, _, _, _)
RECURSIVE ParseChoices(_, _, _, _, _, _, _)

\* _parse_expression(expr, source_place_id, process_name, depth, base_y);
\* `depth` counts the stacked frames of this function
_parse_expression(self0, expr0, source_place_id0, process_name, depth0, base_y0) ==
  LET Body(self, expr, source_place_id, depth, base_y) ==
        IF self.raised # "none" THEN self
        ELSE IF depth > RecursionLimit THEN [self EXCEPT !.raised = "RecursionError"]
        ELSE IF Contains(expr, "+") /\ ~_is_in_parentheses(expr, Find(expr, "+") - 1) THEN
          ParseChoices(self, _split_by_operator(expr, "+"), 1, source_place_id,
                       process_name, depth, base_y)
        ELSE
          LET parts == IF Contains(expr, ".")
                          /\ ~_is_in_parentheses(expr, Find(expr, ".") - 1)
                       THEN _split_by_first_operator(expr, ".") ELSE <<expr>>
          IN
          IF Len(parts) >= 2 THEN
            IF SequenceContinues(self, parts)
            THEN _parse_expression(
                   SequenceHead(self, parts, source_place_id, process_name, base_y),
                   parts[2], self.current_id + 1, process_name, depth + 1, base_y)
            ELSE SequenceHead(self, parts, source_place_id, process_name, base_y)
          ELSE Atomic(self, expr, source_place_id, process_name, base_y)
  IN CHOOSE r \in {Body(a, b, c, d, e) : a \in {self0},
                   b \in {_remove_outer_parentheses(expr0)}, c \in {source_place_id0},
                   d \in {depth0}, e \in {base_y0}} : TRUE

\* the loop `for i, choice in enumerate(choices)` from the i-th choice (1-based) on
ParseChoices(self0, choices0, i, source_place_id, process_name, depth, base_y) ==
  LET Body(self, choices) ==
        IF i > Len(choices) \/ self.raised # "none" THEN self
        ELSE ParseChoices(
               _parse_expression(self, Strip(choices[i]), source_place_id, process_name,
                                 depth + 1, base_y + (i - 1) * 80),
               choices, i + 1, source_place_id, process_name, depth, base_y)
  IN CHOOSE r \in {Body(a, b) : a \in {self0}, b \in {choices0}} : TRUE

\* parser.py 37-46: comment-free, stripped, non-empty lines of the text
RECURSIVE CleanLines(_)
CleanLines(raw) ==
  IF raw = <<>> THEN <<>>
  ELSE LET line == IF Contains(raw[1], "#")
                   THEN SubSeq(raw[1], 1, Find(raw[1], "#") - 1) ELSE raw[1]
       IN (IF Strip(line) # <<>> THEN <<Strip(line)>> ELSE <<>>) \o CleanLines(Tail(raw))

\* parser.py 50-73: first pass, one entry place per line that holds '=',
\* from the i-th line on
RECURSIVE FirstPass(_, _, _)
FirstPass(self0, lines, i) ==
  LET Body(self) ==
        IF i > Len(lines) THEN self
        ELSE IF ~Contains(lines[i], "=") THEN FirstPass(self, lines, i + 1)
        ELSE
          LET eq == Find(lines[i], "=")
              name == Strip(SubSeq(lines[i], 1, eq - 1))
              expr == Strip(Drop(lines[i], eq + 1))
              initial_place_id == self.current_id
          IN FirstPass(
               [get_id(self) EXCEPT
                  !.process_definitions = DictSet(@, name, expr),
                  !.places = Append(@,
                     [id |-> initial_place_id, name |-> name, tokens |-> 1, x |-> 100,
                      y |-> 100 + Len(self.process_places) * 150,
                      is_process |-> TRUE, process |-> name]),
                  !.process_places = DictSet(@, name, initial_place_id)],
               lines, i + 1)
  IN CHOOSE r \in {Body(a) : a \in {self0}} : TRUE

\* parser.py 75-83: second pass over process_definitions.items() from the
\* i-th item on
RECURSIVE SecondPass(_, _)
SecondPass(self0, i) ==
  LET Body(self) ==
        IF i > Len(self.process_definitions) \/ self.raised # "none" THEN self
        ELSE SecondPass(
               _parse_expression(self, self.process_definitions[i][2],
                                 DictGet(self.process_places, self.process_definitions[i][1]),
                                 self.process_definitions[i][1], 1, 100 + (i - 1) * 150),
               i + 1)
  IN CHOOSE r \in {Body(a) : a \in {self0}} : TRUE

\* parser.py 85-115: one transition per pending connection whose target is defined
RECURSIVE PendingPass(_, _)
PendingPass(self0, i) ==
  LET Body(self) ==
        IF i > Len(self.pending_connections) THEN self
        ELSE
          LET conn == self.pending_connections[i] IN
          IF ~DictHas(self.process_places, conn[2]) THEN PendingPass(self, i + 1)
          ELSE
            LET transition_id == self.current_id
                src == _get_place_by_id(self, conn[1])
                s1 == AddTransition(get_id(self),
                        [id |-> transition_id, name |-> <<"→">> \o conn[2],
                         x |-> src.x + 100, y |-> src.y, is_recursion |-> TRUE])
            IN PendingPass(AddArc(AddArc(s1, conn[1], transition_id, TRUE),
                                  transition_id, DictGet(self.process_places, conn[2]),
                                  FALSE),
                           i + 1)
  IN CHOOSE r \in {Body(a) : a \in {self0}} : TRUE

\* parse(text), parser.py 33-118: the instance when the try block is left;
\* `raised` names the exception that left it
RunParse(self, text) ==
  LET Body(lines) ==
        LET Finish(built) == IF built.raised # "none" THEN built ELSE PendingPass(built, 1)
        IN CHOOSE r \in {Finish(b) :
               b \in {SecondPass(FirstPass(reset(self) @@ [raised |-> "none"], lines, 1), 1)}} : TRUE
  IN CHOOSE r \in {Body(l) : l \in {CleanLines(Split(Strip(text), "\n"))}} : TRUE

\* a parse that rolls the instance back to the empty net when it fails
Fields_rolled_back(after) ==
  IF after.raised # "none"
  THEN [f \in (DOMAIN after) \ {"raised"} |-> reset(after)[f]]
  ELSE [f \in (DOMAIN after) \ {"raised"} |-> after[f]]

\* the fields of the instance
Fields(after) == [f \in (DOMAIN after) \ {"raised"} |-> after[f]]

\* an except clause that names ValueError only
except_ValueError == {"ValueError"}

\* the classes `except Exception` catches, among those the parser can raise
\* (RecursionError is a RuntimeError, which is an Exception)
except_Exception == {"RecursionError"}

\* parser.py 118-123: how the call ends: parse returns True, the except clause
\* returns False, or the exception leaves parse
ParseReturn(after) ==
  IF after.raised = "none" THEN "True"
  ELSE IF after.raised \in except_Exception THEN "False"
  ELSE "escaped"

\* get_parsing_errors()
get_parsing_errors(self) == <<>>

(***************************************************************************)
(* The exporters: the method of the class (models/parser.py) and the       *)
(* functions of the patch file (ui/ed.py)                                  *)
(***************************************************************************)

\* sep.join(parts), parts and sep strings
RECURSIVE JoinStr(_, _)
JoinStr(parts, sep) ==
  IF parts = <<>> THEN <<>>
  ELSE IF Len(parts) = 1 THEN parts[1]
  ELSE parts[1] \o sep \o JoinStr(Tail(parts), sep)

\* f"{name} = {expr}"
FullExpr(name, expr) == name \o <<" ", "=", " ">> \o expr

\* _build_expression_from_place(place_id), the placeholder
_build_expression_from_place(self, place_id) == <<>>

\* parser.py 480-492: the lines of the export from the i-th definition on
RECURSIVE ExportLines(_, _)
ExportLines(self, i) ==
  IF i > Len(self.process_definitions) THEN <<>>
  ELSE
    LET name == self.process_definitions[i][1]
        expr == IF DictHas(self.process_places, name)
                THEN _build_expression_from_place(self, DictGet(self.process_places, name))
                ELSE <<>>
    IN (IF expr # <<>> THEN <<FullExpr(name, expr)>> ELSE <<>>) \o ExportLines(self, i + 1)

\* export_to_process_algebra() of ProcessAlgebraParser
export_to_process_algebra(self) == JoinStr(ExportLines(self, 1), <<"\n">>)

\* place.get('is_process', False) or place.get('tokens', 0) > 0
IsProcessPlace(place) ==
  \/ ("is_process" \in DOMAIN place /\ place.is_process)
  \/ ("tokens" \in DOMAIN place /\ place.tokens > 0)

\* [arc for arc in self.arcs if arc['source_id'] == id and
\*  arc['is_place_to_transition'] == p2t]
ArcsFrom(self, id, p2t) ==
  LET Test(arc) == arc.source_id = id /\ arc.is_place_to_transition = p2t
  IN SelectSeq(self.arcs, Test)

\* next((x for x in seq if x['id'] == id), None): the index, 0 for None
FirstWithId(seq, id) ==
  LET hits == {k \in 1..Len(seq) : seq[k].id = id} IN
  IF hits = {} THEN 0 ELSE CHOOSE k \in hits : \A j \in hits : k <= j

\* f"{action}.{continuation}"
Dot(action, continuation) == action \o <<".">> \o continuation

\* a separator that closes a parenthesis before the operator and opens one after
PlusSep_unbalanced == <<")", " ", "+", " ", "(">>

\* " + "
PlusSep == <<" ", "+", " ">>

RECURSIVE _get_continuation_from_place(_, _, _)
RECURSIVE ContinuationBranches(_, _, _, _)
RECURSIVE ContinuationNext(_, _, _, _, _)

\* ed.py 243-247: `for next_arc in next_arcs` of the choice point, from the j-th on
ContinuationNext(self, name, next_arcs, j, visited) ==
  IF j > Len(next_arcs) THEN <<>>
  ELSE <<Dot(name, _get_continuation_from_place(self, next_arcs[j].target_id, visited))>>
         \o ContinuationNext(self, name, next_arcs, j + 1, visited)

\* ed.py 233-247: `for arc in outgoing_arcs` of the choice point, from the i-th on
ContinuationBranches(self, outgoing_arcs, i, visited) ==
  IF i > Len(outgoing_arcs) THEN <<>>
  ELSE
    LET t == FirstWithId(self.transitions, outgoing_arcs[i].target_id)
        next_arcs == ArcsFrom(self, outgoing_arcs[i].target_id, FALSE)
        here == IF t = 0 THEN <<>>
                ELSE IF next_arcs = <<>> THEN <<Dot(self.transitions[t].name, STOP)>>
                ELSE ContinuationNext(self, self.transitions[t].name, next_arcs, 1, visited)
    IN here \o ContinuationBranches(self, outgoing_arcs, i + 1, visited)

\* _get_continuation_from_place(place_id, visited) of ui/ed.py; visited is
\* the set before the call
_get_continuation_from_place(self, place_id, visited0) ==
  IF place_id \in visited0 THEN STOP
  ELSE
    LET visited == visited0 \cup {place_id}
        outgoing_arcs == ArcsFrom(self, place_id, TRUE)
    IN
    IF outgoing_arcs = <<>> THEN STOP
    ELSE IF Len(outgoing_arcs) > 1
    THEN JoinStr(ContinuationBranches(self, outgoing_arcs, 1, visited), PlusSep)
    ELSE
      LET t == FirstWithId(self.transitions, outgoing_arcs[1].target_id)
          next_arcs == ArcsFrom(self, outgoing_arcs[1].target_id, FALSE)
      IN
      IF t = 0 THEN STOP
      ELSE IF next_arcs = <<>> THEN Dot(self.transitions[t].name, STOP)
      ELSE
        LET target_place_id == next_arcs[1].target_id
            named == {k \in 1..Len(self.places) :
                        self.places[k].id = target_place_id /\ IsProcessPlace(self.places[k])}
        IN
        IF FirstWithId(self.places, target_place_id) = 0
        THEN Dot(self.transitions[t].name, STOP)
        ELSE IF named # {}
        THEN Dot(self.transitions[t].name,
                 self.places[CHOOSE k \in named : \A j \in named : k <= j].name)
        ELSE Dot(self.transitions[t].name,
                 _get_continuation_from_place(self, target_place_id, visited))

\* ed.py 146-150: the dict place id -> name of the process places, from the
\* i-th place on
RECURSIVE EdProcessPlaces(_, _, _)
EdProcessPlaces(self, i, process_places) ==
  IF i > Len(self.places) THEN process_places
  ELSE EdProcessPlaces(self, i + 1,
         IF IsProcessPlace(self.places[i])
         THEN DictSet(process_places, self.places[i].id, self.places[i].name)
         ELSE process_places)

\* ed.py 182-199: `for next_arc in next_arcs` of a process place, from the j-th on
RECURSIVE EdNext(_, _, _, _, _)
EdNext(self, action, next_arcs, j, process_places) ==
  IF j > Len(next_arcs) THEN <<>>
  ELSE
    LET target_place_id == next_arcs[j].target_id
        continuation == _get_continuation_from_place(self, target_place_id, {})
        here == IF FirstWithId(self.places, target_place_id) = 0 THEN <<>>
                ELSE IF DictHas(process_places, target_place_id)
                THEN <<Dot(action, DictGet(process_places, target_place_id))>>
                ELSE IF continuation # <<>> THEN <<Dot(action, continuation)>>
                ELSE <<Dot(action, STOP)>>
    IN here \o EdNext(self, action, next_arcs, j + 1, process_places)

\* ed.py 165-199: `for arc in outgoing_arcs` of a process place, from the i-th on
RECURSIVE EdBranches(_, _, _, _)
EdBranches(self, outgoing_arcs, i, process_places) ==
  IF i > Len(outgoing_arcs) THEN <<>>
  ELSE
    LET t == FirstWithId(self.transitions, outgoing_arcs[i].target_id)
        next_arcs == ArcsFrom(self, outgoing_arcs[i].target_id, FALSE)
        here == IF t = 0 THEN <<>>
                ELSE IF next_arcs = <<>> THEN <<Dot(self.transitions[t].name, STOP)>>
                ELSE EdNext(self, self.transitions[t].name, next_arcs, 1, process_places)
    IN here \o EdBranches(self, outgoing_arcs, i + 1, process_places)

\* ed.py 152-203: the dict process name -> expression, from the i-th process
\* place on
RECURSIVE EdProcessCode(_, _, _, _)
EdProcessCode(self, process_places, i, process_code) ==
  IF i > Len(process_places) THEN process_code
  ELSE
    LET place_id == process_places[i][1]
        process_name == process_places[i][2]
        outgoing_arcs == ArcsFrom(self, place_id, TRUE)
        branches == EdBranches(self, outgoing_arcs, 1, process_places)
    IN EdProcessCode(self, process_places, i + 1,
         IF outgoing_arcs = <<>> THEN DictSet(process_code, process_name, STOP)
         ELSE IF branches # <<>>
         THEN DictSet(process_code, process_name, JoinStr(branches, PlusSep))
         ELSE process_code)

\* export_to_process_algebra(self) of ui/ed.py
ed_export_to_process_algebra(self) ==
  IF self.places = <<>> \/ self.transitions = <<>> \/ self.arcs = <<>> THEN <<>>
  ELSE
    LET process_code == EdProcessCode(self, EdProcessPlaces(self, 1, <<>>), 1, <<>>)
    IN JoinStr([k \in 1..Len(process_code) |->
                  FullExpr(process_code[k][1], process_code[k][2])], <<"\n">>)

\* the exporters there are, and what each gives for an instance
Exporters == {"export_to_process_algebra", "ed.export_to_process_algebra"}
Exported(exporter, self) ==
  IF exporter = "export_to_process_algebra" THEN export_to_process_algebra(self)
  ELSE ed_export_to_process_algebra(self)

(***************************************************************************)
(* MainWindow.create_process_subset (ui/main_window.py)                    *)
(*                                                                         *)
(* st holds the instance and the locals connected_ids and frontier.  The   *)
(* for loops run over the lists of the instance while the body appends to  *)
(* them, so they are indexed against the list as it is at each step.       *)
(***************************************************************************)

\* ui/main_window.py 843-860: `for out_arc in self.parser.arcs` from the j-th on
RECURSIVE SubsetOutArcs(_, _, _)
SubsetOutArcs(st0, transition_id, j) ==
  LET Body(st) ==
        IF j > Len(st.self.arcs) THEN st
        ELSE
          LET out_arc == st.self.arcs[j]
              target_place_id == out_arc.target_id
              hit == FirstWithId(st.self.places, target_place_id)
              copied == IF hit = 0 THEN st.self ELSE AddPlace(st.self, st.self.places[hit])
          IN
          IF ~out_arc.is_place_to_transition /\ out_arc.source_id = transition_id
               /\ target_place_id \notin st.connected_ids
          THEN SubsetOutArcs(
                 [self |-> [copied EXCEPT !.arcs = Append(@, out_arc)],
                  connected_ids |-> st.connected_ids \cup {target_place_id},
                  frontier |-> Append(st.frontier, target_place_id)],
                 transition_id, j + 1)
          ELSE SubsetOutArcs(st, transition_id, j + 1)
  IN CHOOSE r \in {Body(a) : a \in {st0}} : TRUE

\* ui/main_window.py 827-860: `for arc in self.parser.arcs` from the i-th on
RECURSIVE SubsetArcs(_, _, _)
SubsetArcs(st0, current_id, i) ==
  LET Body(st) ==
        IF i > Len(st.self.arcs) THEN st
        ELSE
          LET arc == st.self.arcs[i]
              transition_id == arc.target_id
              hit == FirstWithId(st.self.transitions, transition_id)
              copied == IF hit = 0 THEN st.self
                        ELSE AddTransition(st.self, st.self.transitions[hit])
          IN
          IF arc.is_place_to_transition /\ arc.source_id = current_id
               /\ transition_id \notin st.connected_ids
          THEN SubsetArcs(
                 SubsetOutArcs(
                   [st EXCEPT !.self = [copied EXCEPT !.arcs = Append(@, arc)],
                              !.connected_ids = @ \cup {transition_id}],
                   transition_id, 1),
                 current_id, i + 1)
          ELSE SubsetArcs(st, current_id, i + 1)
  IN CHOOSE r \in {Body(a) : a \in {st0}} : TRUE

\* ui/main_window.py 823-860: `while frontier`
RECURSIVE SubsetFrontier(_)
SubsetFrontier(st0) ==
  LET Body(st) ==
        IF st.frontier = <<>> THEN st
        ELSE SubsetFrontier(SubsetArcs([st EXCEPT !.frontier = Tail(@)],
                                       Head(st.frontier), 1))
  IN CHOOSE r \in {Body(a) : a \in {st0}} : TRUE

\* ui/main_window.py 862-869: current_id is set to the highest id + 1
WithCurrentIdFromMax(self) ==
  LET ids == {self.places[k].id : k \in 1..Len(self.places)}
               \cup {self.transitions[k].id : k \in 1..Len(self.transitions)} \cup {-1}
  IN [self EXCEPT !.current_id = (CHOOSE m \in ids : \A i \in ids : i <= m) + 1]

\* create_process_subset(process_name): the instance it returns, which is
\* the instance it was called on.  When no place is the entry place of
\* process_name, process_place_id stays None, no arc starts there, and only
\* current_id is written.
create_process_subset(self, process_name) ==
  LET entries == {k \in 1..Len(self.places) :
                    /\ self.places[k].name = process_name
                    /\ "is_process" \in DOMAIN self.places[k]
                    /\ self.places[k].is_process}
  IN
  IF entries = {} THEN WithCurrentIdFromMax(self)
  ELSE
    LET place == self.places[CHOOSE k \in entries : \A j \in entries : k <= j]
        process_place_id == place.id
        new_place == [place EXCEPT !.tokens = 1]
    IN WithCurrentIdFromMax(
         SubsetFrontier([self |-> AddPlace(self, new_place),
                         connected_ids |-> {process_place_id},
                         frontier |-> <<process_place_id>>]).self)

(***************************************************************************)
(* PetriNetSelectorWindow (ui/petri_net_selector.py)                       *)
(***************************************************************************)

\* whether position k of s (between s[k-1] and s[k]) is a \b word boundary
WordBoundary(s, k) ==
  ((k - 1) \in 1..Len(s) /\ s[k-1] \in WordChars) # (k \in 1..Len(s) /\ s[k] \in WordChars)

\* re.search(r'\b' + re.escape(name) + r'\b', definition)
re_search_word(name, definition) ==
  \E i \in 1..(Len(definition) + 1 - Len(name)) :
     /\ SubSeq(definition, i, i + Len(name) - 1) = name
     /\ WordBoundary(definition, i)
     /\ WordBoundary(definition, i + Len(name))

\* the inner loop without `if other_name != process_name`: a definition that
\* names itself counts as a reference
RECURSIVE RhsInner_counts_self(_, _, _, _)
RhsInner_counts_self(process_definitions, i, j, right_side_processes) ==
  IF j > Len(process_definitions) THEN right_side_processes
  ELSE
    RhsInner_counts_self(process_definitions, i, j + 1,
                IF re_search_word(process_definitions[j][1], process_definitions[i][2])
                THEN right_side_processes \cup {process_definitions[j][1]}
                ELSE right_side_processes)

\* the inner loop `for other_name in process_definitions.keys()` from the j-th key on
RECURSIVE RhsInner(_, _, _, _)
RhsInner(process_definitions, i, j, right_side_processes) ==
  IF j > Len(process_definitions) THEN right_side_processes
  ELSE
    LET process_name == process_definitions[i][1]
        definition == process_definitions[i][2]
        other_name == process_definitions[j][1]
    IN RhsInner(process_definitions, i, j + 1,
                IF other_name # process_name /\ re_search_word(other_name, definition)
                THEN right_side_processes \cup {other_name}
                ELSE right_side_processes)

\* the outer loop `for process_name, definition in process_definitions.items()`
RECURSIVE RhsOuter(_, _, _)
RhsOuter(process_definitions, i, right_side_processes) ==
  IF i > Len(process_definitions) THEN right_side_processes
  ELSE RhsOuter(process_definitions, i + 1,
                RhsInner(process_definitions, i, 1, right_side_processes))

\* find_processes_in_right_hand_side(process_definitions)
find_processes_in_right_hand_side(process_definitions) ==
  RhsOuter(process_definitions, 1, {})

\* "\n".join(f"{name} = {expr}" for name, expr in process_definitions.items())
RECURSIVE CombinedExpr(_, _)
CombinedExpr(process_definitions, i) ==
  IF i > Len(process_definitions) THEN <<>>
  ELSE FullExpr(process_definitions[i][1], process_definitions[i][2])
       \o (IF i < Len(process_definitions) THEN <<"\n">> ELSE <<>>)
       \o CombinedExpr(process_definitions, i + 1)

\* "Process: "
ProcessPrefix == <<"P", "r", "o", "c", "e", "s", "s", ":", " ">>

\* petri_net_selector.py 260-264
ProcessEntry(name, full_expr) ==
  [name |-> ProcessPrefix \o name, description |-> full_expr, expression |-> full_expr]

\* "Main System (All Processes)"
MainSystemName ==
  <<"M", "a", "i", "n", " ", "S", "y", "s", "t", "e", "m", " ", "(",
    "A", "l", "l", " ", "P", "r", "o", "c", "e", "s", "s", "e", "s", ")">>

\* "Combined system with all defined processes"
MainSystemDescription ==
  <<"C", "o", "m", "b", "i", "n", "e", "d", " ", "s", "y", "s", "t", "e", "m", " ", "w", "i", "t", "h", " ",
    "a", "l", "l", " ", "d", "e", "f", "i", "n", "e", "d", " ", "p", "r", "o", "c", "e", "s", "s", "e", "s">>

\* petri_net_selector.py 275-279
MainSystemEntry(combined_expr) ==
  [name |-> MainSystemName, description |-> MainSystemDescription,
   expression |-> combined_expr]

\* petri_net_selector.py 243-266: the loop over process_definitions.items()
RECURSIVE IncludeLoop(_, _, _, _)
IncludeLoop(process_definitions, right_side_processes, i, nets) ==
  IF i > Len(process_definitions) THEN nets
  ELSE
    LET name == process_definitions[i][1]
        full_expr == FullExpr(name, process_definitions[i][2])
        duplicate == \E k \in 1..Len(nets) : nets[k].expression = full_expr
    IN IncludeLoop(process_definitions, right_side_processes, i + 1,
                   IF name \in right_side_processes \/ duplicate THEN nets
                   ELSE Append(nets, ProcessEntry(name, full_expr)))

\* load_parser_definitions(): the new value of parser_nets
load_parser_definitions(process_definitions) ==
  IF process_definitions = <<>> THEN <<>>
  ELSE
    LET nets == IncludeLoop(process_definitions,
                            find_processes_in_right_hand_side(process_definitions), 1, <<>>)
    IN IF Len(process_definitions) > 1 /\ Len(nets) > 0
       THEN Append(nets, MainSystemEntry(CombinedExpr(process_definitions, 1)))
       ELSE nets

(***************************************************************************)
(* petri_to_state_machine (models/Petri_Net_methods.py)                    *)
(*                                                                         *)
(* A frozenset marking is a set of place ids; `states` (id -> marking) is  *)
(* a sequence whose k-th element is the marking of state id k-1;           *)
(* state_to_id is a function from markings to ids.                         *)
(***************************************************************************)

\* Petri_Net_methods.py 98-101
input_places(arcs, transition_id) ==
  {arcs[i].source_id : i \in {k \in 1..Len(arcs) :
      arcs[k].target_id = transition_id /\ arcs[k].is_place_to_transition}}

\* Petri_Net_methods.py 113-116
output_places(arcs, transition_id) ==
  {arcs[i].target_id : i \in {k \in 1..Len(arcs) :
      arcs[k].source_id = transition_id /\ ~arcs[k].is_place_to_transition}}

\* Petri_Net_methods.py 104
enabled(arcs, transition_id, current_marking) ==
  \A place_id \in input_places(arcs, transition_id) : place_id \in current_marking

\* a firing that adds the tokens of the output places and leaves those of
\* the input places where they are
new_marking_keeps_inputs(arcs, transition_id, current_marking) ==
  current_marking \cup output_places(arcs, transition_id)

\* Petri_Net_methods.py 106-121
new_marking(arcs, transition_id, current_marking) ==
  (current_marking \ input_places(arcs, transition_id)) \cup output_places(arcs, transition_id)

\* Petri_Net_methods.py 74
initial_marking(places) ==
  {places[i].id : i \in {k \in 1..Len(places) : places[k].tokens > 0}}

\* the loop body with edges.append inside `if new_marking_frozen not in
\* state_to_id`: a firing into a marking already known leaves no edge
Fire_edge_if_new(loc, arcs, transition, current_marking) ==
  LET new_marking_frozen == new_marking(arcs, transition.id, current_marking)
      edge == [source |-> loc.state_to_id[current_marking], target |-> loc.next_state_id,
               name |-> transition.name]
  IN IF new_marking_frozen \in DOMAIN loc.state_to_id THEN loc
     ELSE [loc EXCEPT !.states = Append(loc.states, new_marking_frozen),
           !.state_to_id = [m \in DOMAIN loc.state_to_id \cup {new_marking_frozen} |->
                              IF m = new_marking_frozen THEN loc.next_state_id
                              ELSE loc.state_to_id[m]],
           !.next_state_id = loc.next_state_id + 1,
           !.edges = Append(loc.edges, edge),
           !.unexplored_states = Append(loc.unexplored_states, new_marking_frozen)]

\* the loop body without the lookup in state_to_id: every marking produced
\* is given a fresh state id
Fire_by_identity(loc, arcs, transition, current_marking) ==
  LET new_marking_frozen == new_marking(arcs, transition.id, current_marking)
      edge == [source |-> loc.state_to_id[current_marking], target |-> loc.next_state_id,
               name |-> transition.name]
  IN [loc EXCEPT !.states = Append(loc.states, new_marking_frozen),
      !.state_to_id = [m \in DOMAIN loc.state_to_id \cup {new_marking_frozen} |->
                         IF m = new_marking_frozen /\ m \notin DOMAIN loc.state_to_id
                         THEN loc.next_state_id
                         ELSE loc.state_to_id[m]],
      !.next_state_id = loc.next_state_id + 1,
      !.edges = Append(loc.edges, edge),
      !.unexplored_states = Append(loc.unexplored_states, new_marking_frozen)]

\* the loop body that puts a marking already known back on the work list
\* (once) instead of recording the edge to it
Fire_requeue(loc, arcs, transition, current_marking) ==
  LET new_marking_frozen == new_marking(arcs, transition.id, current_marking)
      seen == new_marking_frozen \in DOMAIN loc.state_to_id
      queued == \E k \in 1..Len(loc.unexplored_states) :
                   loc.unexplored_states[k] = new_marking_frozen
      edge == [source |-> loc.state_to_id[current_marking], target |-> loc.next_state_id,
               name |-> transition.name]
  IN IF seen
     THEN IF queued THEN loc
          ELSE [loc EXCEPT !.unexplored_states = Append(@, new_marking_frozen)]
     ELSE [loc EXCEPT !.states = Append(loc.states, new_marking_frozen),
           !.state_to_id = [m \in DOMAIN loc.state_to_id \cup {new_marking_frozen} |->
                              IF m = new_marking_frozen THEN loc.next_state_id
                              ELSE loc.state_to_id[m]],
           !.next_state_id = loc.next_state_id + 1,
           !.edges = Append(loc.edges, edge),
           !.unexplored_states = Append(loc.unexplored_states, new_marking_frozen)]

\* Petri_Net_methods.py 123-136: what one enabled transition adds to the locals
\* loc holds states, state_to_id, next_state_id, edges, unexplored_states
Fire(loc, arcs, transition, current_marking) ==
  LET new_marking_frozen == new_marking(arcs, transition.id, current_marking)
      seen == new_marking_frozen \in DOMAIN loc.state_to_id
      target_state_id == IF seen THEN loc.state_to_id[new_marking_frozen]
                         ELSE loc.next_state_id
      edge == [source |-> loc.state_to_id[current_marking], target |-> target_state_id,
               name |-> transition.name]
  IN IF seen THEN [loc EXCEPT !.edges = Append(@, edge)]
     ELSE [loc EXCEPT !.states = Append(loc.states, new_marking_frozen),
           !.state_to_id = [m \in DOMAIN loc.state_to_id \cup {new_marking_frozen} |->
                              IF m = new_marking_frozen THEN loc.next_state_id
                              ELSE loc.state_to_id[m]],
           !.next_state_id = loc.next_state_id + 1,
           !.edges = Append(loc.edges, edge),
           !.unexplored_states = Append(loc.unexplored_states, new_marking_frozen)]

\* Petri_Net_methods.py 93-136: `for transition in transitions` from the i-th on
RECURSIVE ForTransitions(_, _, _, _, _)
ForTransitions(loc, transitions, arcs, current_marking, i) ==
  IF i > Len(transitions) THEN loc
  ELSE ForTransitions(
         IF enabled(arcs, transitions[i].id, current_marking)
         THEN Fire(loc, arcs, transitions[i], current_marking) ELSE loc,
         transitions, arcs, current_marking, i + 1)

\* Petri_Net_methods.py 149-153: the names of the marked places that exist,
\* as a bag (the code sorts the list)
place_names(places, marking) ==
  LET named == {k \in 1..Len(places) : places[k].id \in marking}
      \* place_map keeps, for an id, the last place that has it
      last == {k \in named : \A j \in named : places[j].id = places[k].id => j <= k}
      names == {places[k].name : k \in last}
  IN [n \in names |-> Cardinality({k \in last : places[k].name = n})]

\* Petri_Net_methods.py 138-161
build_state_machine(places, states, edges) ==
  [id |-> "current", name |-> "State Machine",
   states |-> [k \in 1..Len(states) |->
                 [id |-> k - 1, places |-> states[k],
                  place_names |-> place_names(places, states[k]),
                  is_initial |-> (k - 1 = 0)]],
   edges |-> edges]

(***************************************************************************)
(* Inputs                                                                  *)
(***************************************************************************)

\* longest body of the exhaustively enumerated one-line texts
MaxBodyLen == 3

\* parse calls in one run of the model
MaxParses == 2

\* places, transitions and arcs of the nets loaded from a file
MaxNetPlaces == 2
MaxNetTransitions == 2
MaxNetArcs == 3

\* the same for the nets on which termination is checked
MaxLivePlaces == 2
MaxLiveTransitions == 2
MaxLiveArcs == 2

\* the nets of the documents that are loaded, how far their ids are moved up,
\* and the ids asked of get_id after a load
MaxDocPlaces == 2
MaxDocTransitions == 1
MaxDocArcs == 1
MaxIdShift == 1
MaxIssued == 2

\* the processes shown one after another after a parse
MaxShown == 2

\* the nets of an instance that holds a stored net besides its own
MaxSubPlaces == 1
MaxSubTransitions == 1
MaxSubArcs == 1

BodyChars == {"a", "P", ".", "+", "(", ")"}

RECURSIVE StringsUpTo(_, _)
StringsUpTo(chars, n) ==
  IF n = 0 THEN {<<>>}
  ELSE LET shorter == StringsUpTo(chars, n - 1) IN
       shorter \cup {Append(s, c) : s \in {t \in shorter : Len(t) = n - 1}, c \in chars}

\* "P=<body>" for every body of at most MaxBodyLen characters
ShortTexts == {<<"P", "=">> \o body : body \in StringsUpTo(BodyChars, MaxBodyLen)}

Line(name, body) == name \o <<" ", "=", " ">> \o body
TwoLines(l1, l2) == l1 \o <<"\n">> \o l2

\* bodies of the examples
a_P == <<"a", ".", "P">>
b_P == <<"b", ".", "P">>
a_Q == <<"a", ".", "Q">>
a_PQ == <<"a", ".", "P", "Q">>
a_b_P_c_STOP == <<"a", ".", "b", ".", "P", " ", "+", " ", "c", ".", "S", "T", "O", "P">>

ExampleTexts ==
  { Line(<<"P">>, a_b_P_c_STOP),                           \* P = a.b.P + c.STOP
    Line(<<"P">>, a_P),                                    \* P = a.P
    TwoLines(Line(<<"P">>, a_P), Line(<<"Q">>, b_P)),      \* P = a.P / Q = b.P
    TwoLines(Line(<<"P">>, a_Q), Line(<<"Q">>, b_P)),      \* P = a.Q / Q = b.P
    TwoLines(Line(<<"P">>, <<"a">>), Line(<<"P">>, b_P)),  \* P = a / P = b.P
    TwoLines(Line(<<"P">>, <<"Q">>), Line(<<"Q">>, STOP)), \* P = Q / Q = STOP
    TwoLines(<<"P", "=", "a", " ", "#", "c">>, <<"#", "x">>) \o <<"\n", "\n">>
       \o <<"Q", "=", "P">>,                               \* P=a #c / #x / / Q=P
    <<"P", "=", "(", "a", "+", "b", ")", ".", "c", "+", "d">>,  \* P=(a+b).c+d
    <<"P", "=", "a", ".", "s", "t", "o", "p">>,            \* P=a.stop
    <<"P", "=", "a", ".", "b", "+", ")", "+", "c">>,       \* P=a.b+)+c
    TwoLines(<<"Q", "=", "a">>, <<"P", "=", ")", "+", "a">>),  \* Q=a / P=)+a
    <<"P", " ", "=", " ", "a", ".", "P", ".", "b">>,       \* P = a.P.b
    <<"P", "=", "a", ".", "P", "+", "P", "+", "S", "T", "O", "P">>,  \* P=a.P+P+STOP
    <<"P", "=", "a", ".", "b", "+", "c", ".", "d", ".", "e">>,  \* P=a.b+c.d.e
    <<"=", "a">>,                                          \* =a
    <<"P">>,                                               \* P
    <<" ", "\n">> }                                        \* blank

\* what a parser that has parsed before is given
ReparseTexts == ExampleTexts \cup {<<"P", "=">> \o body : body \in StringsUpTo(BodyChars, 1)}

\* the first text a fresh parser is given
Texts == ShortTexts \cup ExampleTexts

\* bodies and names of the texts given to the selector's parser
SelNames == {<<"P">>, <<"Q">>}
SelBodies == {a_P, a_Q, a_PQ, <<"(", "Q", ")", "+", "P">>, STOP}
SelLines == {Line(n, b) : n \in SelNames, b \in SelBodies}
SelTexts == SelLines \cup {TwoLines(l1, l2) : l1 \in SelLines, l2 \in SelLines}
              \cup {<<"=", "a">> \o <<"\n">> \o Line(<<"P">>, a_P), <<"P">>}

\* what the selector's parser is given once it has parsed before
SelReparseTexts ==
  { TwoLines(Line(<<"P">>, a_P), Line(<<"Q">>, b_P)),      \* P = a.P / Q = b.P
    TwoLines(Line(<<"P">>, a_Q), Line(<<"Q">>, b_P)),      \* P = a.Q / Q = b.P
    Line(<<"P">>, a_P),                                    \* P = a.P
    <<"P">> }                                              \* P

\* the nets a saved file can hold: np places with ids from 0, nt transitions
\* with the ids that follow, at most na arcs
NetPlaceIds(np) == 0..(np - 1)
NetTransitionIds(np, nt) == np..(np + nt - 1)

NetArcCandidates(np, nt) ==
  {[source_id |-> p, target_id |-> t, is_place_to_transition |-> TRUE] :
      p \in NetPlaceIds(np), t \in NetTransitionIds(np, nt)}
  \cup {[source_id |-> t, target_id |-> p, is_place_to_transition |-> FALSE] :
      p \in NetPlaceIds(np), t \in NetTransitionIds(np, nt)}

RECURSIVE ArcSets(_, _)
ArcSets(candidates, n) ==
  IF n = 0 THEN {{}}
  ELSE LET smaller == ArcSets(candidates, n - 1) IN
       smaller \cup {S \cup {a} : S \in smaller, a \in candidates}

RECURSIVE SetToSeq(_)
SetToSeq(S) ==
  IF S = {} THEN <<>>
  ELSE LET e == CHOOSE x \in S : TRUE IN <<e>> \o SetToSeq(S \ {e})

NetPlaces(np, marked) ==
  [k \in 1..np |->
     [id |-> k - 1, name |-> <<"p">>, tokens |-> IF (k - 1) \in marked THEN 1 ELSE 0,
      x |-> 100, y |-> 100]]

NetTransitions(np, nt) ==
  [k \in 1..nt |->
     [id |-> np + k - 1, name |-> IF k = 1 THEN <<"a">> ELSE <<"b">>,
      x |-> 200, y |-> 100]]

\* the documents (without parse_tree) of those nets
Nets(np, nt, na) ==
  {[places |-> NetPlaces(np, marked), transitions |-> NetTransitions(np, nt),
    arcs |-> SetToSeq(arcset)] :
     marked \in SUBSET NetPlaceIds(np), arcset \in ArcSets(NetArcCandidates(np, nt), na)}

\* dict.get(key, default) on a document's record
GetOr(d, key, default) == IF key \in DOMAIN d THEN d[key] ELSE default

\* ui/main_window.py 955-980 (ui/editor_window.py 319-344 is the same code),
\* load_petri_net_from_file: the instance after the load of a document
LoadedParser(data) ==
  LET self == [reset(NewParser) EXCEPT !.places = data.places,
                                       !.transitions = data.transitions,
                                       !.arcs = data.arcs]
      ids == {self.places[k].id : k \in 1..Len(self.places)}
               \cup {self.transitions[k].id : k \in 1..Len(self.transitions)} \cup {-1}
  IN IF "parse_tree" \in DOMAIN data
     THEN [self EXCEPT
             !.process_definitions =
                IF "expanded_definitions" \in DOMAIN data.parse_tree
                THEN data.parse_tree.expanded_definitions
                ELSE GetOr(data.parse_tree, "process_definitions", <<>>),
             !.process_places = GetOr(data.parse_tree, "process_places", <<>>),
             !.current_id = GetOr(data.parse_tree, "current_id",
                                  Len(self.places) + Len(self.transitions))]
     ELSE [self EXCEPT !.current_id = (CHOOSE m \in ids : \A i \in ids : i <= m) + 1]

\* a net with every id moved up by shift: the ids of a net that is a part of
\* a larger one do not start at 0 (ui/main_window.py 795-869 keeps the ids)
Renumbered(data, shift) ==
  [places |-> [k \in 1..Len(data.places) |->
                 [data.places[k] EXCEPT !.id = @ + shift]],
   transitions |-> [k \in 1..Len(data.transitions) |->
                      [data.transitions[k] EXCEPT !.id = @ + shift]],
   arcs |-> [k \in 1..Len(data.arcs) |->
               [data.arcs[k] EXCEPT !.source_id = @ + shift, !.target_id = @ + shift]]]

\* the largest id of a net, -1 for the empty net
MaxIdOf(data) ==
  LET ids == {data.places[k].id : k \in 1..Len(data.places)}
               \cup {data.transitions[k].id : k \in 1..Len(data.transitions)} \cup {-1}
  IN CHOOSE m \in ids : \A i \in ids : i <= m

\* a document with parse_tree; with_current_id says whether the parse_tree
\* carries current_id (models/file_manager.py 57-67 writes the counter)
WithParseTree(data, with_current_id) ==
  LET parse_tree == [process_definitions |-> <<>>, process_places |-> <<>>]
      counted == [process_definitions |-> <<>>, process_places |-> <<>>,
                  current_id |-> MaxIdOf(data) + 1]
  IN [places |-> data.places, transitions |-> data.transitions, arcs |-> data.arcs,
      parse_tree |-> IF with_current_id THEN counted ELSE parse_tree]

\* the documents a file can hold: without parse_tree, with a parse_tree that
\* carries current_id and with one that does not
Documents ==
  LET nets == {Renumbered(data, shift) :
                 data \in Nets(MaxDocPlaces, MaxDocTransitions, MaxDocArcs),
                 shift \in 0..MaxIdShift}
  IN nets \cup {WithParseTree(data, with_current_id) :
                  data \in nets, with_current_id \in BOOLEAN}

\* an instance that has been given the attribute petri_nets, a dict from
\* net id to net
WithStoredNets(self, petri_nets) ==
  [f \in (DOMAIN self) \cup {"petri_nets"} |->
     IF f = "petri_nets" THEN petri_nets ELSE self[f]]

\* the id of the stored net, and the values of net_id the builder is given
StoredNetId == <<"P">>
NetIds == {<<"P">>, <<"Q">>}

(***************************************************************************)
(* State                                                                   *)
(***************************************************************************)

VARIABLES
  text,            \* the text the last parse call was given
  parser,          \* the ProcessAlgebraParser instance the windows share
  success,         \* how the last parse call ended: "True", "False", "escaped";
                   \* "none" before the first
  errors,          \* what get_parsing_errors() gave the handler after a failure
  parses,          \* parse calls so far
  parser_nets,     \* PetriNetSelectorWindow.parser_nets
  sm_pc,           \* where petri_to_state_machine stands: idle, loop, returned
  locals,          \* its locals: states, state_to_id, next_state_id, edges, unexplored_states
  state_machine,   \* the dictionary it returns
  call             \* the last direct call of a helper: its function, arguments, result

vars == <<text, parser, success, errors, parses, parser_nets, sm_pc, locals, state_machine, call>>

\* None, and a value that is not None, where a variable can hold either
None == <<>>
Some(value) == <<value>>

NoLocals ==
  [states |-> <<>>, state_to_id |-> <<>>, next_state_id |-> 0, edges |-> <<>>,
   unexplored_states |-> <<>>, net_id |-> None, original_places |-> None,
   original_transitions |-> None, original_arcs |-> None, original_net_id |-> None]

NoStateMachine == [id |-> "none", name |-> "none", states |-> <<>>, edges |-> <<>>]

NoCall == [fn |-> "none", arg |-> <<>>, operator |-> "", result |-> <<>>, again |-> FALSE]

Init ==
  /\ text = <<>>
  /\ parser = NewParser
  /\ success = "none"
  /\ errors = <<>>
  /\ parses = 0
  /\ parser_nets = <<>>
  /\ sm_pc = "idle"
  /\ locals = NoLocals
  /\ state_machine = NoStateMachine
  /\ call = NoCall

(***************************************************************************)
(* Operations                                                              *)
(***************************************************************************)

\* ui/petri_net_window.py 180-229, on_petri_net_selected(expression):
\* parse, and get_parsing_errors when parse returned False
ParseWith(expression) ==
  /\ sm_pc = "idle"
  /\ parses < MaxParses
  /\ \E after \in {RunParse(parser, expression)} :
       /\ parser' = Fields(after)
       /\ success' = ParseReturn(after)
       /\ errors' = IF ParseReturn(after) = "False"
                    THEN get_parsing_errors(Fields(after)) ELSE <<>>
  /\ text' = expression
  /\ parses' = parses + 1
  /\ UNCHANGED <<parser_nets, sm_pc, locals, state_machine>>

on_petri_net_selected ==
  /\ \E expression \in (IF parses = 0 THEN Texts ELSE ReparseTexts) : ParseWith(expression)
  /\ call' = NoCall

\* ui/main_window.py 989-996 and ui/petri_net_window.py 180: the text an
\* exporter gives for the instance is put in the editor, and the editor's
\* text is parsed
ParseExported ==
  /\ success = "True"
  /\ \E exporter \in Exporters :
       LET process_algebra_code == Exported(exporter, parser) IN
       /\ ParseWith(process_algebra_code)
       /\ call' = [fn |-> exporter, arg |-> <<>>, operator |-> "",
                   result |-> process_algebra_code, again |-> FALSE]

\* the same handler on the texts of the selector's specification
on_petri_net_selected_sel ==
  /\ \E expression \in (IF parses = 0 THEN SelTexts ELSE SelReparseTexts) : ParseWith(expression)
  /\ UNCHANGED call

\* ui/petri_net_selector.py 225-283, the "Load Parser Definitions" button
LoadParserDefinitions ==
  /\ sm_pc = "idle"
  /\ parser_nets' = load_parser_definitions(parser.process_definitions)
  /\ UNCHANGED <<text, parser, success, errors, parses, sm_pc, locals, state_machine, call>>

\* Petri_Net_methods.py 45: net_id is not None and hasattr(parser, 'petri_nets')
\* and net_id in parser.petri_nets
SelectsStoredNet(self, net_id) ==
  /\ net_id # None
  /\ "petri_nets" \in DOMAIN self
  /\ DictHas(self.petri_nets, net_id[1])

\* Petri_Net_methods.py 52-56: the instance with the stored net loaded
LoadStoredNet(self, net_id) ==
  LET net_data == DictGet(self.petri_nets, net_id[1]) IN
  [self EXCEPT !.places = net_data.places,
               !.transitions = net_data.transitions,
               !.arcs = net_data.arcs]

\* Petri_Net_methods.py 39-86: petri_to_state_machine(parser, net_id) up to
\* the loop
Begin(net_id) ==
  /\ sm_pc = "idle"
  /\ LET selects == SelectsStoredNet(parser, net_id)
         loaded == IF selects THEN LoadStoredNet(parser, net_id) ELSE parser
         m0 == initial_marking(loaded.places)
     IN
       /\ parser' = loaded
       /\ locals' = [states |-> <<m0>>, state_to_id |-> [m \in {m0} |-> 0],
                     next_state_id |-> 1, edges |-> <<>>, unexplored_states |-> <<m0>>,
                     net_id |-> net_id,
                     original_places |-> IF selects THEN Some(parser.places) ELSE None,
                     original_transitions |-> IF selects THEN Some(parser.transitions) ELSE None,
                     original_arcs |-> IF selects THEN Some(parser.arcs) ELSE None,
                     original_net_id |-> IF selects /\ "current_net" \in DOMAIN parser
                                         THEN parser.current_net ELSE None]
  /\ sm_pc' = "loop"
  /\ UNCHANGED <<text, success, errors, parses, parser_nets, state_machine, call>>

\* petri_to_state_machine(parser)
SMBegin == Begin(None)

\* petri_to_state_machine(parser, net_id)
SMBeginNet == \E net_id \in NetIds : Begin(Some(net_id))

\* a return that leaves the instance as the loop left it
RestoreOriginal_skipped(self, l) == self

\* Petri_Net_methods.py 163-169: the original state is put back if a stored
\* net was loaded; l is the locals of the call
RestoreOriginal(self, l) ==
  IF l.original_places # None
  THEN LET restored == [self EXCEPT !.places = l.original_places[1],
                                    !.transitions = l.original_transitions[1],
                                    !.arcs = l.original_arcs[1]]
       IN IF l.original_net_id # None /\ "current_net" \in DOMAIN self
          THEN [restored EXCEPT !.current_net = l.original_net_id]
          ELSE restored
  ELSE self

\* Petri_Net_methods.py 59-63 and 139-140: 'id' and 'name' of the dictionary
sm_id(net_id) == IF net_id # None /\ net_id[1] # <<>> THEN net_id[1] ELSE "current"

sm_name(self, net_id) ==
  IF SelectsStoredNet(self, net_id)
  THEN LET net_data == DictGet(self.petri_nets, net_id[1]) IN
       <<"State Machine for", IF "name" \in DOMAIN net_data THEN net_data.name ELSE net_id[1]>>
  ELSE IF "current_net" \in DOMAIN self /\ self.current_net # None
  THEN <<"State Machine for", self.current_net[1]>>
  ELSE "State Machine"

\* a work list taken from its end: what list.pop() would do
pop_last(unexplored_states) ==
  [item |-> unexplored_states[Len(unexplored_states)],
   rest |-> SubSeq(unexplored_states, 1, Len(unexplored_states) - 1)]

\* Petri_Net_methods.py 89: unexplored_states.pop(0), the marking taken and
\* the list that is left
pop_0(unexplored_states) ==
  [item |-> Head(unexplored_states), rest |-> Tail(unexplored_states)]

\* Petri_Net_methods.py 88-136: one iteration of `while unexplored_states`
SMLoop ==
  /\ sm_pc = "loop"
  /\ locals.unexplored_states # <<>>
  /\ LET popped == pop_0(locals.unexplored_states)
         current_marking == popped.item
     IN
       locals' = ForTransitions([locals EXCEPT !.unexplored_states = popped.rest],
                                parser.transitions, parser.arcs, current_marking, 1)
  /\ UNCHANGED <<text, parser, success, errors, parses, parser_nets, sm_pc, state_machine, call>>

\* Petri_Net_methods.py 138-171: the loop has ended, the dictionary is returned
SMReturn ==
  /\ sm_pc = "loop"
  /\ locals.unexplored_states = <<>>
  /\ state_machine' = [build_state_machine(parser.places, locals.states, locals.edges)
                         EXCEPT !.id = sm_id(locals.net_id),
                                !.name = sm_name(parser, locals.net_id)]
  /\ parser' = RestoreOriginal(parser, locals)
  /\ sm_pc' = "returned"
  /\ UNCHANGED <<text, success, errors, parses, parser_nets, locals, call>>

\* ui/main_window.py 1547-1550: the dialog that shows the state machine is
\* closed and the caller drops it
DialogClosed ==
  /\ sm_pc = "returned"
  /\ sm_pc' = "idle"
  /\ locals' = NoLocals
  /\ state_machine' = NoStateMachine
  /\ UNCHANGED <<text, parser, success, errors, parses, parser_nets, call>>

Next ==
  \/ on_petri_net_selected
  \/ ParseExported
  \/ SMBegin
  \/ SMLoop
  \/ SMReturn
  \/ DialogClosed

Spec == Init /\ [][Next]_vars

\* the selector on the shared parser
NextSel ==
  \/ on_petri_net_selected_sel
  \/ LoadParserDefinitions

SpecSel == Init /\ [][NextSel]_vars

\* a net of `nets` has been loaded from a file
InitLoaded(nets) ==
  /\ \E data \in nets : parser = LoadedParser(data)
  /\ text = <<>>
  /\ success = "none"
  /\ errors = <<>>
  /\ parses = 0
  /\ parser_nets = <<>>
  /\ sm_pc = "idle"
  /\ locals = NoLocals
  /\ state_machine = NoStateMachine
  /\ call = NoCall

\* a net loaded from a file, then the reachability builder
InitNet == InitLoaded(Nets(MaxNetPlaces, MaxNetTransitions, MaxNetArcs))

NextNet ==
  \/ SMBegin
  \/ SMLoop
  \/ SMReturn

SpecNet == InitNet /\ [][NextNet]_vars

\* an instance that holds a stored net under the name P besides its own, and
\* the reachability builder called with and without a net_id
InitSub ==
  /\ \E data \in Nets(MaxSubPlaces, MaxSubTransitions, MaxSubArcs),
        net_data \in Nets(MaxSubPlaces, MaxSubTransitions, MaxSubArcs) :
       parser = WithStoredNets(LoadedParser(data), <<<<StoredNetId, net_data>>>>)
  /\ text = <<>>
  /\ success = "none"
  /\ errors = <<>>
  /\ parses = 0
  /\ parser_nets = <<>>
  /\ sm_pc = "idle"
  /\ locals = NoLocals
  /\ state_machine = NoStateMachine
  /\ call = NoCall

NextSub ==
  \/ SMBegin
  \/ SMBeginNet
  \/ SMLoop
  \/ SMReturn
  \/ DialogClosed

SpecSub == InitSub /\ [][NextSub]_vars

\* ui/main_window.py 955-980: a document is loaded into the shared instance
load_petri_net_from_file ==
  /\ call.fn = "none"
  /\ \E data \in Documents :
       /\ parser' = LoadedParser(data)
       /\ call' = [fn |-> "load_petri_net_from_file", arg |-> data, operator |-> "",
                   result |-> <<>>, again |-> FALSE, issued |-> 0]
  /\ UNCHANGED <<text, success, errors, parses, parser_nets, sm_pc, locals, state_machine>>

\* parser.py 28-31: get_id() is asked for an id after a load
Call_get_id ==
  /\ call.fn \in {"load_petri_net_from_file", "get_id"}
  /\ call.issued < MaxIssued
  /\ parser' = get_id(parser)
  /\ call' = [call EXCEPT !.fn = "get_id", !.result = parser'.current_id - 1,
                          !.issued = @ + 1]
  /\ UNCHANGED <<text, success, errors, parses, parser_nets, sm_pc, locals, state_machine>>

NextLoad ==
  \/ load_petri_net_from_file
  \/ Call_get_id

SpecLoad == Init /\ [][NextLoad]_vars

\* ui/main_window.py 488-495, show_process(process_name) for a process of the
\* parsed text: the instance becomes what create_process_subset returns
show_process ==
  /\ sm_pc = "idle"
  /\ success = "True"
  /\ (IF call.fn = "show_process" THEN call.shown ELSE 0) < MaxShown
  /\ \E process_name \in DictKeys(parser.process_definitions) :
       /\ parser' = create_process_subset(parser, process_name)
       /\ call' = [fn |-> "show_process", arg |-> process_name, operator |-> "",
                   result |-> <<>>, again |-> FALSE,
                   shown |-> (IF call.fn = "show_process" THEN call.shown ELSE 0) + 1]
  /\ UNCHANGED <<text, success, errors, parses, parser_nets, sm_pc, locals, state_machine>>

\* a text is parsed and its processes are shown one by one
NextShow ==
  \/ on_petri_net_selected
  \/ show_process

SpecShow == Init /\ [][NextShow]_vars

InitLive == InitLoaded(Nets(MaxLivePlaces, MaxLiveTransitions, MaxLiveArcs))

\* the loop is a plain sequential loop: it goes on until it returns
SpecLive == InitLive /\ [][NextNet]_vars /\ WF_vars(SMLoop) /\ WF_vars(SMReturn)

\* longest string the helpers are called on directly
MaxFnLen == 5

FnChars == {"a", "(", ")", "+", ".", " "}

\* the strings the helpers are given, the examples among them
FnStrings ==
  StringsUpTo(FnChars, MaxFnLen)
    \cup { <<"a", ".", "(", "b", "+", "c", ")", ".", "d">>,   \* a.(b+c).d
           <<"a", "+", "(", "b", "+", "c", ")">> }             \* a+(b+c)

\* _remove_outer_parentheses(expr) called on a string; a run of the model
\* makes one such call and may repeat it on the result
Call_remove_outer_parentheses ==
  /\ call.fn = "none"
  /\ \E expr \in FnStrings :
       call' = [fn |-> "_remove_outer_parentheses", arg |-> expr, operator |-> "",
                result |-> _remove_outer_parentheses(expr), again |-> FALSE]
  /\ UNCHANGED <<text, parser, success, errors, parses, parser_nets, sm_pc, locals,
                 state_machine>>

\* _remove_outer_parentheses called on what it returned last
Call_remove_outer_parentheses_again ==
  /\ call.fn = "_remove_outer_parentheses"
  /\ ~call.again
  /\ call' = [fn |-> "_remove_outer_parentheses", arg |-> call.result, operator |-> "",
              result |-> _remove_outer_parentheses(call.result), again |-> TRUE]
  /\ UNCHANGED <<text, parser, success, errors, parses, parser_nets, sm_pc, locals,
                 state_machine>>

\* _split_by_operator(expr, operator) called on a string
Call_split_by_operator ==
  /\ call.fn = "none"
  /\ \E expr \in FnStrings, operator \in {"+", "."} :
       call' = [fn |-> "_split_by_operator", arg |-> expr, operator |-> operator,
                result |-> _split_by_operator(expr, operator), again |-> FALSE]
  /\ UNCHANGED <<text, parser, success, errors, parses, parser_nets, sm_pc, locals,
                 state_machine>>

NextFn ==
  \/ Call_remove_outer_parentheses
  \/ Call_remove_outer_parentheses_again
  \/ Call_split_by_operator

\* the helpers of the parser called directly
SpecFn == Init /\ [][NextFn]_vars

(***************************************************************************)
(* Properties                                                              *)
(***************************************************************************)

Range(seq) == {seq[i] : i \in 1..Len(seq)}

PlaceIdsOf(self) == {self.places[i].id : i \in 1..Len(self.places)}
TransitionIdsOf(self) == {self.transitions[i].id : i \in 1..Len(self.transitions)}

\* the texts of the examples
Text_PaP == Line(<<"P">>, a_P)
Text_PaP_QbP == TwoLines(Line(<<"P">>, a_P), Line(<<"Q">>, b_P))
Text_PaQ_QbP == TwoLines(Line(<<"P">>, a_Q), Line(<<"Q">>, b_P))
Text_Malformed == <<"P", "=", ")", "+", "a">>

\* C1: after a parse that returned True, every arc flagged
\* is_place_to_transition has a place id as source and a transition id as
\* target, every other arc has a transition id as source and a place id as
\* target; no arc names an id that does not exist.
C1_ArcsResolve ==
  success = "True" =>
    \A i \in 1..Len(parser.arcs) :
      IF parser.arcs[i].is_place_to_transition
      THEN /\ parser.arcs[i].source_id \in PlaceIdsOf(parser)
           /\ parser.arcs[i].target_id \in TransitionIdsOf(parser)
      ELSE /\ parser.arcs[i].source_id \in TransitionIdsOf(parser)
           /\ parser.arcs[i].target_id \in PlaceIdsOf(parser)

\* a parse that returned True and built arcs of both directions, one of them
\* from a transition back to the entry place of a process
C1_Witness ==
  /\ success = "True"
  /\ \E i \in 1..Len(parser.arcs) : parser.arcs[i].is_place_to_transition
  /\ \E i \in 1..Len(parser.arcs) :
       /\ ~parser.arcs[i].is_place_to_transition
       /\ \E k \in 1..Len(parser.process_places) :
            parser.process_places[k][2] = parser.arcs[i].target_id

\* the names no other definition mentions as a whole word
Unreferenced(defs) ==
  {n \in DictKeys(defs) :
     \A m \in DictKeys(defs) \ {n} : ~re_search_word(n, DictGet(defs, m))}

\* the main processes as the specification has them: the unreferenced names,
\* or every name when all are referenced
MainProcesses(defs) ==
  IF Unreferenced(defs) = {} THEN DictKeys(defs) ELSE Unreferenced(defs)

RECURSIVE TokenSum(_)
TokenSum(places) ==
  IF places = <<>> THEN 0 ELSE Head(places).tokens + TokenSum(Tail(places))

\* C2: after a parse that returned True the tokens of all places sum to the
\* number of main (unreferenced) process definitions, and the places that
\* hold a token are exactly the entry places of the main processes.
C2_TokensCountMain ==
  success = "True" =>
    /\ TokenSum(parser.places) = Cardinality(MainProcesses(parser.process_definitions))
    /\ \A i \in 1..Len(parser.places) :
         (parser.places[i].tokens = 1) <=>
           \E n \in MainProcesses(parser.process_definitions) :
              DictGet(parser.process_places, n) = parser.places[i].id

\* the process names the selector lists as "Process: <name>"
ListedProcesses(nets) ==
  {Drop(nets[k].name, Len(ProcessPrefix) + 1) :
     k \in {j \in 1..Len(nets) :
              SubSeq(nets[j].name, 1, Len(ProcessPrefix)) = ProcessPrefix}}

\* C3: what load_parser_definitions lists as main processes are the defined
\* names that occur as a whole word in the body of no other definition; for
\* P = a.P / Q = b.P that is {Q}.
C3_MainIsUnreferenced ==
  [][LoadParserDefinitions =>
       /\ ListedProcesses(parser_nets') = Unreferenced(parser.process_definitions)
       /\ (text = Text_PaP_QbP => ListedProcesses(parser_nets') = {<<"Q">>})]_vars

\* the selector has listed Q alone for P = a.P / Q = b.P
C3_Witness ==
  /\ text = Text_PaP_QbP
  /\ success = "True"
  /\ DictKeys(parser.process_definitions) = {<<"P">>, <<"Q">>}
  /\ ListedProcesses(parser_nets) = {<<"Q">>}

\* C4: when every defined process is referenced by another, the main set
\* falls back to all of them; for P = a.Q / Q = b.P the selector lists {P, Q}.
C4_FallbackToAll ==
  [][(/\ LoadParserDefinitions
      /\ parser.process_definitions # <<>>
      /\ Unreferenced(parser.process_definitions) = {})
       => ListedProcesses(parser_nets') = DictKeys(parser.process_definitions)]_vars

\* the pairs (index of an explored state, index of a transition enabled in
\* its marking)
EnabledPairs(states, transitions, arcs) ==
  {pr \in (1..Len(states)) \X (1..Len(transitions)) :
     \A p \in input_places(arcs, transitions[pr[2]].id) : p \in states[pr[1]]}

\* the marking (M \ in(t)) \cup out(t) of such a pair
PairTarget(states, transitions, arcs, pr) ==
  (states[pr[1]] \ input_places(arcs, transitions[pr[2]].id))
     \cup output_places(arcs, transitions[pr[2]].id)

\* the edge the pair stands for, when its target marking is a state
PairEdge(states, transitions, arcs, pr) ==
  [source |-> pr[1] - 1,
   target |-> (CHOOSE k \in 1..Len(states) :
                 states[k] = PairTarget(states, transitions, arcs, pr)) - 1,
   name |-> transitions[pr[2]].name]

\* C5: the edge list petri_to_state_machine returns holds exactly one edge
\* per pair (explored marking M, transition t enabled in M), from the id of M
\* to the id of (M \ in(t)) \cup out(t), whether or not that marking was new,
\* and no other edge.
C5_EdgesPerEnabledPair ==
  sm_pc = "returned" =>
    LET states == locals.states
        edges == state_machine.edges
        pairs == EnabledPairs(states, parser.transitions, parser.arcs)
    IN /\ \A pr \in pairs :
            PairTarget(states, parser.transitions, parser.arcs, pr) \in Range(states)
       /\ Len(edges) = Cardinality(pairs)
       /\ \A e \in Range(edges) \cup
                     {PairEdge(states, parser.transitions, parser.arcs, pr) : pr \in pairs} :
            Cardinality({i \in 1..Len(edges) : edges[i] = e})
              = Cardinality({pr \in pairs :
                   PairEdge(states, parser.transitions, parser.arcs, pr) = e})

\* the builder has returned a machine with an edge into a state that was new
\* and an edge into a state that was already known
C5_Witness ==
  /\ sm_pc = "returned"
  /\ \E i \in 1..Len(state_machine.edges) :
       state_machine.edges[i].target > state_machine.edges[i].source
  /\ \E i \in 1..Len(state_machine.edges) :
       state_machine.edges[i].target <= state_machine.edges[i].source

\* the markings reachable from those of S by firing enabled transitions
RECURSIVE ReachableFrom(_, _, _)
ReachableFrom(S, transitions, arcs) ==
  LET step == UNION {{(M \ input_places(arcs, transitions[j].id))
                         \cup output_places(arcs, transitions[j].id) :
                       j \in {k \in 1..Len(transitions) :
                                \A p \in input_places(arcs, transitions[k].id) : p \in M}} :
                     M \in S}
  IN IF step \subseteq S THEN S ELSE ReachableFrom(S \cup step, transitions, arcs)

\* C6: states are memoized by the value of their marking: the states of
\* petri_to_state_machine stand one-to-one for the distinct markings reachable
\* from the initial marking; for P = a.P the machine has exactly one state and
\* one self-loop edge named a.
C6_StatesAreDistinctMarkings ==
  /\ sm_pc \in {"loop", "returned"} =>
       /\ \A i, j \in 1..Len(locals.states) :
            locals.states[i] = locals.states[j] => i = j
       /\ Range(locals.states) \subseteq
            ReachableFrom({initial_marking(parser.places)}, parser.transitions, parser.arcs)
  /\ sm_pc = "returned" =>
       /\ Range(locals.states) =
            ReachableFrom({initial_marking(parser.places)}, parser.transitions, parser.arcs)
       /\ Len(state_machine.states) = Len(locals.states)
       /\ \A k \in 1..Len(state_machine.states) :
            /\ state_machine.states[k].id = k - 1
            /\ state_machine.states[k].places = locals.states[k]
  /\ (sm_pc = "returned" /\ text = Text_PaP /\ success = "True") =>
       /\ Len(state_machine.states) = 1
       /\ state_machine.edges = <<[source |-> 0, target |-> 0, name |-> <<"a">>]>>

\* the builder has returned the machine of P = a.P, whose only transition
\* leads back to the initial marking
C6_Witness ==
  /\ sm_pc = "returned"
  /\ text = Text_PaP
  /\ success = "True"
  /\ Len(state_machine.states) = 1
  /\ Len(state_machine.edges) = 1

\* C7: petri_to_state_machine terminates on every finite net, cyclic ones
\* included: once in its loop it returns.
C7_Terminates == (sm_pc = "loop") ~> (sm_pc = "returned")

\* the builder has returned on a net with a cycle: an edge leads back to a
\* state explored before
C7_Witness ==
  /\ sm_pc = "returned"
  /\ Len(state_machine.states) >= 2
  /\ \E i \in 1..Len(state_machine.edges) :
       state_machine.edges[i].target < state_machine.edges[i].source

\* C8: for every text, malformed ones included, parse returns a boolean; no
\* exception leaves it.
C8_ParseReturnsBoolean == parses > 0 => success \in {"True", "False"}

\* parse was given a malformed text, raised inside its try block and
\* returned False
C8_Witness ==
  /\ parses > 0
  /\ text = Text_Malformed
  /\ success = "False"

\* C9: whenever parse returns False, get_parsing_errors() called right after
\* gives a non-empty list.
C9_ErrorsAfterFailure == success = "False" => Len(errors) > 0

\* C10: parse resets all state at entry: whatever was parsed before, places,
\* transitions, arcs, current_id, process_definitions and process_places
\* after parse(text) are those of a fresh instance that parsed this text only.
C10_ParseResets ==
  parses > 0 =>
    \A fresh \in {RunParse(NewParser, text)} :
      /\ parser.places = fresh.places
      /\ parser.transitions = fresh.transitions
      /\ parser.arcs = fresh.arcs
      /\ parser.current_id = fresh.current_id
      /\ parser.process_definitions = fresh.process_definitions
      /\ parser.process_places = fresh.process_places

\* a parser that had built a net parsed a second text
C10_Witness ==
  /\ parses = 2
  /\ text = Text_PaP_QbP
  /\ success = "True"
  /\ parser.current_id = 4

\* the net of an instance with every id replaced by its rank among the ids
\* in use: two nets with the same ranked structure are isomorphic
RankedStructure(self) ==
  LET ids == PlaceIdsOf(self) \cup TransitionIdsOf(self)
               \cup {self.arcs[i].source_id : i \in 1..Len(self.arcs)}
               \cup {self.arcs[i].target_id : i \in 1..Len(self.arcs)}
      rank(i) == Cardinality({j \in ids : j < i})
  IN [places |-> [k \in 1..Len(self.places) |->
                    <<rank(self.places[k].id), self.places[k].name, self.places[k].tokens>>],
      transitions |-> [k \in 1..Len(self.transitions) |->
                    <<rank(self.transitions[k].id), self.transitions[k].name>>],
      arcs |-> [k \in 1..Len(self.arcs) |->
                    <<rank(self.arcs[k].source_id), rank(self.arcs[k].target_id),
                      self.arcs[k].is_place_to_transition>>]]

C12_OneEntryPlacePerName ==
  success = "True" =>
    \A n \in DictKeys(parser.process_definitions) :
      LET entries == {i \in 1..Len(parser.places) :
                        /\ "is_process" \in DOMAIN parser.places[i]
                        /\ parser.places[i].is_process
                        /\ parser.places[i].name = n}
      IN /\ Cardinality(entries) = 1
         /\ \A i \in entries : parser.places[i].id = DictGet(parser.process_places, n)

\* the ids of the places followed by those of the transitions
IdsInUse(self) ==
  [k \in 1..Len(self.places) |-> self.places[k].id]
    \o [k \in 1..Len(self.transitions) |-> self.transitions[k].id]

\* C13: after every parse the ids of the places and transitions are exactly
\* 0 .. current_id - 1, each used once: no two places, no two transitions and
\* no place and transition share an id.
C13_IdsAreTheCounter ==
  parses > 0 =>
    /\ Len(IdsInUse(parser)) = parser.current_id
    /\ Range(IdsInUse(parser)) = 0..(parser.current_id - 1)

\* a parse has issued ids to places and transitions alike, and a failed
\* parse has left the ids it issued before the exception
C13_Witness ==
  /\ parses > 0
  /\ success = "False"
  /\ Len(parser.places) >= 2
  /\ Len(parser.transitions) >= 1
  /\ parser.current_id >= 3

\* C14: _remove_outer_parentheses is idempotent: applied to its own result
\* it returns that result unchanged, for every string, ((a)) included.
C14_RemoveOuterIdempotent ==
  (call.fn = "_remove_outer_parentheses" /\ call.again) => call.result = call.arg

\* parts joined by the operator
RECURSIVE Join(_, _)
Join(parts, operator) ==
  IF parts = <<>> THEN <<>>
  ELSE IF Len(parts) = 1 THEN parts[1]
  ELSE parts[1] \o <<operator>> \o Join(Tail(parts), operator)

\* the positions of expr that hold the operator at parenthesis depth 0
DepthZeroOccurrences(expr, operator) ==
  {i \in 1..Len(expr) :
     /\ expr[i] = operator
     /\ Cardinality({j \in 1..(i - 1) : expr[j] = "("})
          = Cardinality({j \in 1..(i - 1) : expr[j] = ")"})}

\* C15: _split_by_operator splits at every occurrence of the operator at
\* parenthesis depth 0 and nowhere else: the parts joined by the operator give
\* expr back and there is one part more than depth-0 occurrences; a.(b+c).d
\* on '.' gives [a, (b+c), d] and a+(b+c) on '+' gives [a, (b+c)].
C15_SplitJoins ==
  call.fn = "_split_by_operator" =>
    /\ Join(call.result, call.operator) = call.arg
    /\ Len(call.result) = Cardinality(DepthZeroOccurrences(call.arg, call.operator)) + 1
    /\ (call.arg = <<"a", ".", "(", "b", "+", "c", ")", ".", "d">> /\ call.operator = ".")
         => call.result = << <<"a">>, <<"(", "b", "+", "c", ")">>, <<"d">> >>
    /\ (call.arg = <<"a", "+", "(", "b", "+", "c", ")">> /\ call.operator = "+")
         => call.result = << <<"a">>, <<"(", "b", "+", "c", ")">> >>

\* the transitions (indices) an arc leads to from place id p, and the places
\* (indices) an arc leads to from transition id t
Leaving(self, p) ==
  {k \in 1..Len(self.transitions) :
     \E i \in 1..Len(self.arcs) :
        /\ self.arcs[i].is_place_to_transition
        /\ self.arcs[i].source_id = p
        /\ self.arcs[i].target_id = self.transitions[k].id}
Outputs(self, t) ==
  {k \in 1..Len(self.places) :
     \E i \in 1..Len(self.arcs) :
        /\ ~self.arcs[i].is_place_to_transition
        /\ self.arcs[i].source_id = t
        /\ self.arcs[i].target_id = self.places[k].id}

Text_Pab_cSTOP == Line(<<"P">>, a_b_P_c_STOP)

\* C16: parsing P = a.b.P + c.STOP gives one entry place P with 1 token;
\* exactly two transitions, a and c, leave it; a leads to an intermediate
\* place whose only outgoing transition, b, arcs back to the entry place; c
\* arcs to a STOP place; there are no other places or transitions.
C16_ExampleNet ==
  (text = Text_Pab_cSTOP /\ success = "True") =>
    /\ Len(parser.places) = 3
    /\ Len(parser.transitions) = 3
    /\ \E e, m, st \in 1..Len(parser.places), ta, tb, tc \in 1..Len(parser.transitions) :
         /\ {e, m, st} = 1..3
         /\ {ta, tb, tc} = 1..3
         /\ parser.places[e].name = <<"P">>
         /\ parser.places[e].tokens = 1
         /\ parser.places[e].id = DictGet(parser.process_places, <<"P">>)
         /\ parser.places[m].tokens = 0
         /\ parser.places[st].name = STOP
         /\ parser.places[st].tokens = 0
         /\ parser.transitions[ta].name = <<"a">>
         /\ parser.transitions[tb].name = <<"b">>
         /\ parser.transitions[tc].name = <<"c">>
         /\ Leaving(parser, parser.places[e].id) = {ta, tc}
         /\ Outputs(parser, parser.transitions[ta].id) = {m}
         /\ Leaving(parser, parser.places[m].id) = {tb}
         /\ Outputs(parser, parser.transitions[tb].id) = {e}
         /\ Outputs(parser, parser.transitions[tc].id) = {st}
         /\ Leaving(parser, parser.places[st].id) = {}
         /\ Len(parser.arcs) = 6

\* P = a.b.P + c.STOP has been parsed
C16_Witness ==
  /\ text = Text_Pab_cSTOP
  /\ success = "True"
  /\ parses = 1
  /\ Len(parser.arcs) = 6

\* C17: the reachability builder run on the net of P = a.b.P + c.STOP
\* returns exactly 2 states, the marking {P} and the marking {STOP place},
\* connected by two labelled edges.
C17_ExampleTwoStates ==
  (sm_pc = "returned" /\ text = Text_Pab_cSTOP /\ success = "True") =>
    /\ Len(state_machine.states) = 2
    /\ Len(state_machine.edges) = 2
    /\ {state_machine.states[k].places : k \in 1..Len(state_machine.states)} =
         { {parser.places[k].id : k \in {j \in 1..Len(parser.places) :
                                             parser.places[j].name = <<"P">>}},
           {parser.places[k].id : k \in {j \in 1..Len(parser.places) :
                                             parser.places[j].name = STOP}} }

NetOf(self) == <<self.places, self.transitions, self.arcs>>

\* the net the caller of petri_to_state_machine had when it called
CallersNet(self, l) ==
  IF l.original_places # None
  THEN <<l.original_places[1], l.original_transitions[1], l.original_arcs[1]>>
  ELSE NetOf(self)

\* C19: petri_to_state_machine leaves parser.places, parser.transitions and
\* parser.arcs at return as they were at the call, whether or not net_id
\* selects a stored net: what the call finds is kept through the loop and is
\* what the instance holds at the return.
C19_BuilderLeavesNet ==
  [][/\ (sm_pc = "idle" /\ sm_pc' = "loop") => CallersNet(parser', locals') = NetOf(parser)
     /\ (sm_pc = "loop" /\ sm_pc' = "loop") => CallersNet(parser', locals') = CallersNet(parser, locals)
     /\ (sm_pc = "loop" /\ sm_pc' = "returned") => NetOf(parser') = CallersNet(parser, locals)
     /\ (sm_pc = "returned") => NetOf(parser') = NetOf(parser)]_vars

\* the builder has returned the state machine of a stored net that is not the
\* caller's, and the instance holds the caller's net
C19_Witness ==
  /\ sm_pc = "returned"
  /\ locals.original_places # None
  /\ NetOf(parser) = CallersNet(parser, locals)
  /\ NetOf(parser) # NetOf(DictGet(parser.petri_nets, locals.net_id[1]))
  /\ locals.net_id = Some(StoredNetId)
  /\ state_machine.states # <<>>

\* the document the last load was given carries no current_id
LoadedWithoutCurrentId ==
  /\ call.fn \in {"load_petri_net_from_file", "get_id"}
  /\ ("parse_tree" \in DOMAIN call.arg => "current_id" \notin DOMAIN call.arg.parse_tree)

\* C20: after a load from a document that carries no current_id, current_id
\* is the largest id of the loaded places and transitions plus one, and every
\* id get_id gives afterwards differs from every loaded id.
C20_CurrentIdAfterLoad ==
  /\ (LoadedWithoutCurrentId /\ call.fn = "load_petri_net_from_file")
        => parser.current_id = MaxIdOf(call.arg) + 1
  /\ (LoadedWithoutCurrentId /\ call.fn = "get_id")
        => \A k \in 1..Len(IdsInUse(parser)) : IdsInUse(parser)[k] # call.result

\* the branches a '+' at parenthesis depth 0 splits an expression into
TopLevelBranches(expr) == _split_by_operator(_remove_outer_parentheses(expr), "+")

\* the branches that hold a term: some character of a word
BranchesWithTerm(branches) ==
  {k \in 1..Len(branches) : \E j \in 1..Len(branches[k]) : branches[k][j] \in WordChars}

Text_Choice_After_Parens == <<"P", "=", "(", "a", "+", "b", ")", ".", "c", "+", "d">>

\* C21: when the expression of a definition has a '+' at parenthesis depth 0,
\* also behind a '+' inside parentheses, every top-level branch is expanded
\* from the entry place: the entry place has a transition of its own for
\* every branch that holds a term.
C21_ChoiceSplitsFirst ==
  success = "True" =>
    \A i \in 1..Len(parser.process_definitions) :
      LET branches == TopLevelBranches(parser.process_definitions[i][2])
          entry == DictGet(parser.process_places, parser.process_definitions[i][1])
      IN Len(branches) >= 2 =>
           Cardinality(Leaving(parser, entry)) >= Cardinality(BranchesWithTerm(branches))

\* an expression that is a plain sequence: no choice and no parentheses
PlainSequence(expr) == \A j \in 1..Len(expr) : expr[j] \notin {"+", "(", ")"}

\* the terms of a plain sequence
Terms(expr) == _split_by_operator(expr, ".")

\* a transition named `name` has an arc to the place with id `place_id`
ArcsInto(self, name, place_id) ==
  \E k \in 1..Len(self.transitions) :
    /\ self.transitions[k].name = name
    /\ \E i \in 1..Len(self.arcs) :
         /\ ~self.arcs[i].is_place_to_transition
         /\ self.arcs[i].source_id = self.transitions[k].id
         /\ self.arcs[i].target_id = place_id

Text_PaPb == <<"P", " ", "=", " ", "a", ".", "P", ".", "b">>

\* C22: in a plain sequence, when the term after an action is the name of a
\* defined process, the transition of the action has an arc to the entry
\* place of that process.
C22_ReferenceClosesLoop ==
  success = "True" =>
    \A i \in 1..Len(parser.process_definitions) :
      LET expr == parser.process_definitions[i][2]
          terms == Terms(expr)
      IN PlainSequence(expr) =>
           \A k \in 1..(Len(terms) - 1) :
             DictHas(parser.process_places, Strip(terms[k + 1])) =>
               ArcsInto(parser, Strip(terms[k]),
                        DictGet(parser.process_places, Strip(terms[k + 1])))

\* C23: in a plain sequence whose last term is an action, neither STOP nor the
\* name of a defined process, the transition of that term has no outgoing
\* arc: no terminal place is made for it.
C23_FinalActionDangles ==
  success = "True" =>
    \A i \in 1..Len(parser.process_definitions) :
      LET expr == parser.process_definitions[i][2]
          terms == Terms(expr)
          last == IF terms = <<>> THEN <<>> ELSE Strip(terms[Len(terms)])
      IN (PlainSequence(expr) /\ last # <<>> /\ Upper(last) # STOP
            /\ ~DictHas(parser.process_places, last)) =>
           \E k \in 1..Len(parser.transitions) :
             /\ parser.transitions[k].name = last
             /\ Outputs(parser, parser.transitions[k].id) = {}

\* C24: the expansion of every expression ends by itself: no text makes
\* _parse_expression stack frames until the interpreter raises RecursionError.
C24_ExpansionTerminates ==
  parses > 0 => \A built \in {RunParse(NewParser, text)} : built.raised # "RecursionError"

\* C25: when parse returns False nothing is rolled back: the instance holds
\* the places, transitions and arcs this text had made when the exception was
\* raised, the entry places of its definitions among them, and nothing that
\* an earlier parse built.
C25_NoRollback ==
  success = "False" =>
    \A built \in {RunParse(NewParser, text)} :
      /\ parser.places = built.places
      /\ parser.transitions = built.transitions
      /\ parser.arcs = built.arcs
      /\ \A i \in 1..Len(parser.process_places) :
           \E k \in 1..Len(parser.places) :
             /\ parser.places[k].id = parser.process_places[i][2]
             /\ parser.places[k].name = parser.process_places[i][1]
      /\ parser.places # <<>>

\* a second parse has failed after it had made transitions and arcs, and
\* they are on the instance
C25_Witness ==
  /\ parses = 2
  /\ success = "False"
  /\ Len(parser.transitions) >= 2
  /\ Len(parser.arcs) >= 2

\* C26: after every successful parse, every transition, the silent one of a
\* bare STOP and the arrow of a bare process reference included, has an
\* incoming arc from a place that exists.
C26_TransitionsHaveInput ==
  success = "True" =>
    \A k \in 1..Len(parser.transitions) :
      \E i \in 1..Len(parser.arcs) :
        /\ parser.arcs[i].is_place_to_transition
        /\ parser.arcs[i].target_id = parser.transitions[k].id
        /\ parser.arcs[i].source_id \in PlaceIdsOf(parser)

\* a parse has made a literal action, a silent transition and an arrow
C26_Witness ==
  /\ success = "True"
  /\ \E k \in 1..Len(parser.transitions) : parser.transitions[k].name = <<"τ">>
  /\ \E k \in 1..Len(parser.transitions) : parser.transitions[k].name = <<"→", "P">>
  /\ \E k \in 1..Len(parser.transitions) : parser.transitions[k].name = <<"a">>

\* C27: showing single processes after a parse leaves the net of the instance
\* as the parse made it: the same places, transitions and arcs, and no id
\* used twice.
C27_ShowKeepsNet ==
  call.fn = "show_process" =>
    \A built \in {RunParse(NewParser, text)} :
      /\ parser.places = built.places
      /\ parser.transitions = built.transitions
      /\ parser.arcs = built.arcs
      /\ Cardinality(Range(IdsInUse(parser))) = Len(IdsInUse(parser))

\* the processes a main process mentions in its definition
PulledIn(defs) ==
  {r \in DictKeys(defs) :
     \E m \in Unreferenced(defs) \ {r} : re_search_word(r, DictGet(defs, m))}

\* C28: every place, transition and arc carries a process field, and what is
\* built for a process that a main process references carries the name of the
\* main process, never the name of the referenced process.
C28_AttributedToMain ==
  success = "True" =>
    /\ \A k \in 1..Len(parser.places) :
         /\ "process" \in DOMAIN parser.places[k]
         /\ parser.places[k].process \notin PulledIn(parser.process_definitions)
    /\ \A k \in 1..Len(parser.transitions) :
         /\ "process" \in DOMAIN parser.transitions[k]
         /\ parser.transitions[k].process \notin PulledIn(parser.process_definitions)
    /\ \A i \in 1..Len(parser.arcs) : "process" \in DOMAIN parser.arcs[i]

\* the states within d edges of state 0
RECURSIVE Within(_, _)
Within(sm, d) ==
  IF d = 0 THEN {0}
  ELSE LET near == Within(sm, d - 1) IN
       near \cup {sm.edges[i].target : i \in {k \in 1..Len(sm.edges) : sm.edges[k].source \in near}}

\* the least number of edges from state 0 to state id; every state is within
\* Len(sm.states) edges of state 0 if any path leads to it at all
Distance(sm, id) ==
  IF \E d \in 0..Len(sm.states) : id \in Within(sm, d)
  THEN CHOOSE d \in 0..Len(sm.states) :
         /\ id \in Within(sm, d)
         /\ \A c \in 0..(d - 1) : id \notin Within(sm, c)
  ELSE Len(sm.states) + 1

\* C29: the states of a returned state machine are numbered 0..n-1 in the
\* order of a breadth-first search: state 0 is the initial marking and the
\* only initial state, every later state has an edge from a state with a
\* smaller id, and a state with a larger id is never nearer to state 0.
C29_BreadthFirstIds ==
  sm_pc = "returned" =>
    LET sm == state_machine
        n == Len(sm.states)
    IN /\ n >= 1
       /\ \A k \in 1..n : sm.states[k].id = k - 1
       /\ sm.states[1].places = initial_marking(parser.places)
       /\ \A k \in 1..n : sm.states[k].is_initial <=> (k = 1)
       /\ \A k \in 2..n : \E i \in 1..Len(sm.edges) :
             sm.edges[i].target = k - 1 /\ sm.edges[i].source < k - 1
       /\ \A j \in 0..(n - 1) : \A k \in j..(n - 1) :
             Distance(sm, j) <= Distance(sm, k)

\* a state machine with two branches of different length has been returned
C29_Witness ==
  /\ sm_pc = "returned"
  /\ Len(state_machine.states) >= 6
  /\ \E j \in 0..5 : \E k \in 0..5 :
       /\ Distance(state_machine, j) = 1
       /\ Distance(state_machine, k) = 3

\* C30: in the state machine of a net that a successful parse produced, no
\* edge leads to a marking with more places than the marking it leaves, so
\* no state has more marked places than the initial marking.
C30_FiringNeverAddsTokens ==
  (success = "True" /\ sm_pc = "returned") =>
    LET sm == state_machine IN
    /\ \A i \in 1..Len(sm.edges) :
         Cardinality(sm.states[sm.edges[i].target + 1].places)
           <= Cardinality(sm.states[sm.edges[i].source + 1].places)
    /\ \A k \in 1..Len(sm.states) :
         Cardinality(sm.states[k].places) <= Cardinality(initial_marking(parser.places))

\* a state machine of a parsed net has been returned in which a firing moves
\* a token onto a place that is marked already
C30_Witness ==
  /\ success = "True"
  /\ sm_pc = "returned"
  /\ \E i \in 1..Len(state_machine.edges) :
       Cardinality(state_machine.states[state_machine.edges[i].target + 1].places)
         < Cardinality(state_machine.states[state_machine.edges[i].source + 1].places)

====
